---------------------------- MODULE Spec2Model ----------------------------
(***************************************************************************)
(* Model of os_doc_tools/doctest.py: find_affected_books, the scan of the  *)
(* documentation tree and the closure over the include graph that decide   *)
(* which books are rebuilt after the last commit, and build_affected_books, *)
(* which builds them in a pool of worker processes and reports.            *)
(*                                                                         *)
(* A directory is a number, 0 is rootdir (<gitroot>/doc).  A directory     *)
(* base name is <<lead, stem, tail>> and a file base name is               *)
(* <<prefix, stem, extension>>, so that startswith / endswith of the code  *)
(* are computed and not assumed.  A path is <<directory, file name>>.      *)
(***************************************************************************)
EXTENDS Integers, Sequences, FiniteSets

(* Bounds of the model. *)
NDirs == 3
MaxChanged == 1
MaxIncludes == 3
MaxModified == 2
NBooks == 5
MaxCpus == 5
MaxLines == 3
MaxTokens == 4
MaxHelp == 4

VARIABLES
    parent,           \* tree: directory -> its parent directory
    name,             \* tree: directory -> base name
    pom,              \* tree: directory -> "pom.xml" in files
    hrefs,            \* tree: path -> resolved fileref / href targets of the file
    wellformed,       \* tree: the paths etree.parse reads without XMLSyntaxError
    gitdiff,          \* last commit: path -> "-" untouched, "M" (ACMRT), "D" deleted
    other_modified,   \* last commit: its names outside the XML files of the tree
    force,            \* parameter force
    only_book,        \* cfg.CONF.only_book
    book_exceptions,  \* parameter book_exceptions
    ignore_dirs,      \* parameter ignore_dirs
    file_exceptions,  \* parameter file_exceptions
    pc,               \* position in find_affected_books
    walk,             \* directories os.walk still yields, in order
    books,            \* books
    book_root,        \* book_root
    affected_books,   \* affected_books
    included_by,      \* included_by (a key is present iff its set is not empty)
    book_bk,          \* book_bk
    new_files_to_check, \* rest of new_files_to_check in the for loop
    new_files,        \* new_files
    affected_files,   \* affected_files
    result,           \* the returned value, as a set
    visited,          \* history: directories os.walk has yielded
    dequeued,         \* history: path -> times taken from the frontier
    debug,            \* cfg.CONF.debug
    ignore_errors,    \* parameter ignore_errors of build_affected_books
    cpu_count,        \* multiprocessing.cpu_count()
    build_books,      \* books of build_affected_books (what find_affected_books returned)
    todo,             \* rest of sorted(books) in the for loop of 1046
    task,             \* book -> "-", "queued", "running", "recorded", "raised", "returned"
    failed_step,      \* history: book -> the command of its build that failed
    RESULTS_OF_BUILDS, \* RESULTS_OF_BUILDS
    exit_status,      \* exit status of the process once pc = "exit"
    missing_reference, \* missing_reference of check_deleted_files
    outside_deleted,  \* last commit: it deleted the figure kept outside rootdir
    outside_refs,     \* tree: the paths whose fileref resolves to that figure
    opt_names,        \* options.get_option_names()
    flagmappings,     \* the lines of <package_name>.flagmappings
    lines_left,       \* rest of the lines in "for line in f"
    original_flags,   \* original_flags
    opts_left,        \* rest of the names in "for opt in options.get_option_names()"
    updated_flags,    \* updated_flags
    flagmappings_new, \* the lines written to <package_name>.flagmappings.new
    base_book_orig,   \* base_book_orig: the base name of parameter book
    base_book,        \* base_book
    failing,          \* environment: the commands of the build that exit non-zero
    webhelp_dir,      \* environment: the build leaves a directory under target/docbkx/webhelp
    commands_run,     \* history: the commands check_output has run
    build_result,     \* result
    build_returns,    \* the value build_book returned
    argv,             \* sys.argv[1:]: the check options given on the command line
    check_all,        \* CONF.check_all
    check_build,      \* CONF.check_build
    check_deletions,  \* CONF.check_deletions
    check_niceness,   \* CONF.check_niceness
    check_syntax,     \* CONF.check_syntax
    mismatch,         \* environment: book, target_dir and publish_dir are given with different lengths
    modified_files,   \* modified_files of www_touched, as a set
    exits,            \* environment: the checks that end the process with sys.exit(1)
    ran,              \* history: the functions main has called, in order
    docfile,          \* the lines of docfile, each without its newline
    doc_left,         \* rest of the lines in "for line in open(docfile, 'r')"
    lc,               \* lc
    affected_lines,   \* affected_lines
    tab_lines,        \* tab_lines
    help_lines,       \* help_lines
    help_left,        \* rest of the lines in "for line in help_lines"
    ignore_next_lines, \* ignore_next_lines
    next_line_screen, \* next_line_screen
    os_file           \* what generate_command has written to os_file, piece by piece

tree == <<parent, name, pom, hrefs, wellformed>>
args == <<gitdiff, other_modified, force, only_book, book_exceptions, ignore_dirs,
          file_exceptions>>
scan == <<walk, books, book_root, affected_books, included_by, book_bk, visited>>
closure == <<new_files_to_check, new_files, affected_files, dequeued>>
build == <<debug, ignore_errors, cpu_count, build_books, todo, task, failed_step,
           RESULTS_OF_BUILDS, exit_status>>
pool == <<debug, ignore_errors, cpu_count, build_books, todo, task, failed_step,
          RESULTS_OF_BUILDS>>
deletions == <<missing_reference, outside_deleted, outside_refs>>
flags == <<opt_names, flagmappings, lines_left, original_flags, opts_left,
           updated_flags, flagmappings_new>>
bookbuild == <<base_book_orig, base_book, failing, webhelp_dir, commands_run, build_result, build_returns>>
mainprog == <<argv, check_all, check_build, check_deletions, check_niceness, check_syntax, mismatch, modified_files, exits, ran>>
whitespaces == <<docfile, doc_left, lc, affected_lines, tab_lines>>
command == <<help_lines, help_left, ignore_next_lines, next_line_screen, os_file>>
rest == <<deletions, flags, bookbuild, mainprog, whitespaces, command>>
beyond_deletions == <<flags, bookbuild, mainprog, whitespaces, command>>
beyond_flags == <<tree, args, scan, closure, result, build, deletions, bookbuild, mainprog, whitespaces, command>>
beyond_bookbuild == <<tree, args, scan, closure, result, build, deletions, flags, mainprog, whitespaces, command>>
beyond_mainprog == <<tree, args, scan, closure, result, build, deletions, flags, bookbuild, whitespaces, command>>
beyond_main_exit == <<tree, args, scan, closure, result, pool, deletions, flags, bookbuild, whitespaces, command>>
beyond_whitespaces == <<tree, args, scan, closure, result, build, deletions, flags, bookbuild, mainprog, command>>
beyond_command == <<tree, args, scan, closure, result, build, deletions, flags, bookbuild, mainprog, whitespaces>>
vars == <<tree, args, scan, closure, pc, result, build, rest>>

-----------------------------------------------------------------------------
(* Names. *)

rootdir == 0
Dirs == 0 .. (NDirs - 1)

DOC == <<"", "", "doc">>
BOOKA == <<"", "a", "">>
BOOKB == <<"", "b", "">>
HIDDEN == <<".", "git", "">>
TARGET == <<"", "target", "">>
HAGUIDE == <<"", "high-availability-guide", "">>
APIDOC == <<"", "api", "doc">>
DirNames == {BOOKA, BOOKB, HIDDEN, TARGET, HAGUIDE, APIDOC}

BK == <<"bk-", "m", ".xml">>
CH == <<"", "ch", ".xml">>
POMXML == <<"", "pom", ".xml">>
HADOCINFO == <<"", "ha-guide-docinfo", ".xml">>
GLOSSARY == <<"", "openstack-glossary", ".xml">>
CoreNames == {BK, CH}
FileNames == {BK, CH, HADOCINFO}

(* Names a commit can touch besides the XML files of the tree, relative to *)
(* the top of the repository.                                              *)
OtherNames == {"tools/test.py", "doc/pom.xml", "www/index.html"}

Paths == Dirs \X FileNames
dirname(p) == p[1]
basename(p) == p[2]

(* The orders a set can be listed in. *)
RECURSIVE Orders(_)
Orders(S) ==
    IF S = {} THEN {<<>>}
    ELSE UNION {{<<x>> \o s : s \in Orders(S \ {x})} : x \in S}

Range(s) == {s[i] : i \in 1 .. Len(s)}

(* A set of numbers listed in ascending order. *)
Ascending(S) ==
    CHOOSE s \in Orders(S) : \A i, j \in 1 .. Len(s) : i < j => s[i] < s[j]

(* The paths of the tree: a deleted file is in the diff and not on disk. *)
exists(p) == gitdiff[p] # "D"
files(d) == {fn \in FileNames : exists(<<d, fn>>)}
children(d) == {c \in Dirs \ {rootdir} : parent[c] = d}

RECURSIVE ancestors(_)
ancestors(d) == IF d = rootdir THEN {d} ELSE {d} \cup ancestors(parent[d])

-----------------------------------------------------------------------------
(* Pure functions of doctest.py. *)

startswith_dot(n) == n[1] = "."
endswith_doc(n) == n[3] = "doc"

is_book_master(fn) ==
    \/ fn[1] \in {"bk-", "bk_", "st-"} /\ fn[3] = ".xml"
    \/ fn = GLOSSARY

(* git diff --name-only --relative --diff-filter=ACMRT, made absolute; git  *)
(* lists the paths in path order.                                          *)
PathRank(p) == 3 * p[1] + (IF p[2] = BK THEN 0 ELSE IF p[2] = CH THEN 1 ELSE 2)
get_modified_files ==
    LET S == {p \in Paths : gitdiff[p] = "M"}
    IN CHOOSE s \in Orders(S) :
           \A i \in 1 .. Len(s), j \in 1 .. Len(s) :
               i < j => PathRank(s[i]) < PathRank(s[j])

(* ha_guide_touched: some name of the diff (deletions too) starts with     *)
(* doc/high-availability-guide/, where rootdir is <gitroot>/doc.           *)
under_ha_guide(p) ==
    \E d \in ancestors(dirname(p)) :
        d # rootdir /\ parent[d] = rootdir /\ name[d] = HAGUIDE
ha_guide_touched == \E p \in Paths : gitdiff[p] # "-" /\ under_ha_guide(p)

(* check_modified_affects_all: some name of the diff (no filter, names     *)
(* relative to the top of the repository) is in special_files.             *)
special_files_NoPom == {"tools/test.py"}
special_files == {"tools/test.py", "doc/pom.xml"}
check_modified_affects_all == \E f \in other_modified : f \in special_files

(* Variant: the force parameter is not consulted. *)
build_all_books_NoForce == check_modified_affects_all \/ only_book # {}

build_all_books == force \/ check_modified_affects_all \/ only_book # {}

(* root.endswith('doc/high-availability-guide') *)
endswith_ha_guide(d) ==
    d # rootdir /\ name[d] = HAGUIDE /\ endswith_doc(name[parent[d]])

(* The three filters of dirs at the head of the os.walk loop body. *)
FilterDirs(ds) ==
    {d \in ds :
        /\ name[d] # TARGET
        /\ ~startswith_dot(name[d])
        /\ (ignore_dirs # {} => name[d] \notin ignore_dirs)}

(* Variant: the test compares the whole path root, which is never a base   *)
(* name of book_exceptions.                                                *)
IsBookException_FullPath(root) == FALSE

(* if os.path.basename(root) in book_exceptions: break *)
IsBookException(root) == name[root] \in book_exceptions

(* elif root.endswith('doc') or root == rootdir: continue *)
IsSkipped(root) == endswith_doc(name[root]) \/ root = rootdir

(* Variant: every directory with a pom.xml is a book, whatever only_book. *)
IsBook_Unfiltered(root) == ~IsSkipped(root) /\ pom[root]

(* elif "pom.xml" in files, and the only_book test: books.append(root) *)
IsBook(root) ==
    /\ ~IsSkipped(root)
    /\ pom[root]
    /\ (only_book = {} \/ name[root] \in only_book)

(* Variant: a file that is not well-formed XML ends the scan of its        *)
(* directory.                                                              *)
Parsed_StopAtInvalid(root) ==
    IF \E fn \in files(root) : fn[3] = ".xml" /\ <<root, fn>> \notin wellformed
    THEN {}
    ELSE {<<root, fn>> : fn \in
               {f \in files(root) : /\ f[3] = ".xml"
                                    /\ f # POMXML
                                    /\ f # HADOCINFO
                                    /\ f \notin file_exceptions}}

(* Variant: ha-guide-docinfo.xml is parsed like any other file. *)
Parsed_WithDocinfo(root) ==
    {p \in {<<root, fn>> : fn \in
               {f \in files(root) : /\ f[3] = ".xml"
                                    /\ f # POMXML
                                    /\ f \notin file_exceptions}} :
        p \in wellformed}

(* The files of root whose include directives the scan records (905-913). *)
Parsed(root) ==
    {p \in {<<root, fn>> : fn \in
               {f \in files(root) : /\ f[3] = ".xml"
                                    /\ f # POMXML
                                    /\ f # HADOCINFO
                                    /\ f \notin file_exceptions}} :
        p \in wellformed}

(* Variant: no test against affected_files. *)
NewIncluders_Unfiltered(f, incl, affected) == incl[f]

(* Variant: only a file that includes itself is left out. *)
NewIncluders_NotSelf(f, incl, affected) == incl[f] \ {f}

(* Variant: master files are left out of the frontier. *)
NewIncluders_NoMasters(f, incl, affected) ==
    {g \in incl[f] : g \notin affected /\ ~is_book_master(basename(g))}

(* The includers the closure adds for f: "if g not in affected_files". *)
NewIncluders(f, incl, affected) == {g \in incl[f] : g \notin affected}


-----------------------------------------------------------------------------
(* The parts of the program that a run of one function leaves alone:    *)
(* nothing was deleted outside rootdir and no check has started.         *)
IdleDeletions ==
    /\ missing_reference = FALSE
    /\ outside_deleted = FALSE
    /\ outside_refs = {}

IdleFlags ==
    /\ opt_names = <<>>
    /\ flagmappings = <<>>
    /\ lines_left = <<>>
    /\ original_flags = [f \in {} |-> <<>>]
    /\ opts_left = <<>>
    /\ updated_flags = <<>>
    /\ flagmappings_new = <<>>

IdleBookbuild ==
    /\ base_book_orig = ""
    /\ base_book = ""
    /\ failing = {}
    /\ webhelp_dir = FALSE
    /\ commands_run = <<>>
    /\ build_result = TRUE
    /\ build_returns = <<>>

IdleMain ==
    /\ argv = {}
    /\ check_all = FALSE
    /\ check_build = FALSE
    /\ check_deletions = FALSE
    /\ check_niceness = FALSE
    /\ check_syntax = FALSE
    /\ mismatch = FALSE
    /\ modified_files = {}
    /\ exits = {}
    /\ ran = <<>>

IdleWhitespaces ==
    /\ docfile = <<>>
    /\ doc_left = <<>>
    /\ lc = 0
    /\ affected_lines = <<>>
    /\ tab_lines = <<>>

IdleCommand ==
    /\ help_lines = <<>>
    /\ help_left = <<>>
    /\ ignore_next_lines = FALSE
    /\ next_line_screen = TRUE
    /\ os_file = <<>>

IdleRest == IdleDeletions /\ IdleFlags /\ IdleBookbuild /\ IdleMain /\ IdleWhitespaces /\ IdleCommand
IdleBeyondDeletions == IdleFlags /\ IdleBookbuild /\ IdleMain /\ IdleWhitespaces /\ IdleCommand
IdleBeyondFlags == IdleDeletions /\ IdleBookbuild /\ IdleMain /\ IdleWhitespaces /\ IdleCommand
IdleBeyondBookbuild == IdleDeletions /\ IdleFlags /\ IdleMain /\ IdleWhitespaces /\ IdleCommand
IdleBeyondMainprog == IdleDeletions /\ IdleFlags /\ IdleBookbuild /\ IdleWhitespaces /\ IdleCommand
IdleBeyondWhitespaces == IdleDeletions /\ IdleFlags /\ IdleBookbuild /\ IdleMain /\ IdleCommand
IdleBeyondCommand == IdleDeletions /\ IdleFlags /\ IdleBookbuild /\ IdleMain /\ IdleWhitespaces

(* The state after the first lines of find_affected_books (845-858). *)
InitProgram ==
    /\ pc = "walk"
    /\ walk = <<rootdir>>
    /\ books = <<>>
    /\ book_root = rootdir
    /\ affected_books = {}
    /\ included_by = [p \in Paths |-> {}]
    /\ book_bk = [p \in {} |-> rootdir]
    /\ new_files_to_check = <<>>
    /\ new_files = <<>>
    /\ affected_files = {}
    /\ result = {}
    /\ visited = {}
    /\ dequeued = [p \in Paths |-> 0]
    /\ debug = FALSE
    /\ ignore_errors = FALSE
    /\ cpu_count = 1
    /\ build_books = {}
    /\ todo = <<>>
    /\ task = [b \in {} |-> "-"]
    /\ failed_step = [b \in {} |-> "-"]
    /\ RESULTS_OF_BUILDS = <<>>
    /\ exit_status = 0
    /\ IdleRest

(* The diffs of a last commit that touches at most k paths of the tree.    *)
Diffs(k, statuses) ==
    {[p \in Paths |-> IF basename(p) \in CoreNames THEN g[p] ELSE "-"] :
        g \in {h \in [Dirs \X CoreNames -> {"-"} \cup statuses] :
                  Cardinality({p \in Dirs \X CoreNames : h[p] # "-"}) <= k}}

(* Trees: any shape, any names (siblings differ), any manifests; every      *)
(* directory holds a master file that includes the chapter beside it and a *)
(* docinfo file that includes nothing, all files are well-formed XML and   *)
(* none is excepted; the last commit touched at most MaxChanged master     *)
(* files and chapters.                                                     *)
InitTree ==
    /\ parent \in [Dirs \ {rootdir} -> Dirs]
    /\ \A d \in Dirs \ {rootdir} : parent[d] < d
    /\ name \in [Dirs -> DirNames \cup {DOC}]
    /\ name[rootdir] = DOC
    /\ \A d \in Dirs \ {rootdir} : name[d] \in DirNames
    /\ \A c, d \in Dirs \ {rootdir} : (c # d /\ parent[c] = parent[d]) => name[c] # name[d]
    /\ pom \in [Dirs -> BOOLEAN]
    /\ pom[rootdir]
    /\ hrefs = [p \in Paths |-> IF basename(p) = BK THEN {<<dirname(p), CH>>} ELSE {}]
    /\ wellformed = Paths
    /\ file_exceptions = {}
    /\ gitdiff \in Diffs(MaxChanged, {"M", "D"})
    /\ other_modified \in {{}} \cup {{f} : f \in OtherNames}
    /\ force \in BOOLEAN
    /\ only_book \in {{}, {BOOKA}}
    /\ \E x \in {<<{}, {}>>, <<{BOOKB}, {}>>, <<{}, {BOOKB}>>} :
           book_exceptions = x[1] /\ ignore_dirs = x[2]

Init == InitTree /\ InitProgram

(* Scans: a book a under rootdir and a directory b under rootdir or under  *)
(* a, listed in either order; at most MaxIncludes include directives in    *)
(* their files, the docinfo files too, that name chapters; at most one     *)
(* file that is not well-formed XML; ch.xml excepted or not; b excluded or *)
(* not; the last commit modified the chapter of a.                         *)
ScanEdges ==
    {<<f, t>> : f \in {1, 2} \X FileNames, t \in {1, 2} \X {CH}}

RECURSIVE ScanEdgeSets(_)
ScanEdgeSets(k) ==
    IF k = 0 THEN {{}}
    ELSE LET S == ScanEdgeSets(k - 1)
         IN S \cup {s \cup {e} : s \in S, e \in ScanEdges}

InitFiles ==
    /\ \E up \in {rootdir, 1} :
          parent = [d \in Dirs \ {rootdir} |-> IF d = 1 THEN rootdir
                                               ELSE IF d = 2 THEN up ELSE d - 1]
    /\ name = [d \in Dirs |-> IF d = rootdir THEN DOC
                               ELSE IF d = 1 THEN BOOKA
                               ELSE IF d = 2 THEN BOOKB ELSE HIDDEN]
    /\ pom = [d \in Dirs |-> d <= 2]
    /\ \E E \in ScanEdgeSets(MaxIncludes) :
           hrefs = [p \in Paths |-> {t \in Paths : <<p, t>> \in E}]
    /\ wellformed \in {Paths} \cup {Paths \ {p} : p \in {1, 2} \X FileNames}
    /\ file_exceptions \in {{}, {CH}}
    /\ gitdiff = [p \in Paths |-> IF p = <<1, CH>> THEN "M" ELSE "-"]
    /\ other_modified = {}
    /\ force = FALSE
    /\ only_book = {}
    /\ book_exceptions \in {{}, {BOOKB}}
    /\ ignore_dirs = {}

InitScan == InitFiles /\ InitProgram

(* Include graphs: two sibling books, a and b, under rootdir (any further   *)
(* directory is a dot directory with untouched files), no option set, and  *)
(* any at most MaxIncludes include directives from the files of the books  *)
(* to files of the books and to the chapter of rootdir; the last commit    *)
(* modified at most MaxModified files of rootdir and the books.            *)
GraphDirs == {d \in Dirs : d <= 2}
GraphEdges ==
    {<<f, t>> : f \in (GraphDirs \ {rootdir}) \X CoreNames,
                t \in (GraphDirs \X CoreNames) \ {<<rootdir, BK>>}}

RECURSIVE EdgeSets(_)
EdgeSets(k) ==
    IF k = 0 THEN {{}}
    ELSE LET S == EdgeSets(k - 1)
         IN S \cup {s \cup {e} : s \in S, e \in GraphEdges}

InitGraph ==
    /\ parent = [d \in Dirs \ {rootdir} |-> IF d <= 2 THEN rootdir ELSE d - 1]
    /\ name = [d \in Dirs |-> IF d = rootdir THEN DOC
                               ELSE IF d = 1 THEN BOOKA
                               ELSE IF d = 2 THEN BOOKB ELSE HIDDEN]
    /\ pom = [d \in Dirs |-> d <= 2]
    /\ \E E \in EdgeSets(MaxIncludes) :
           hrefs = [p \in Paths |-> {t \in Paths : <<p, t>> \in E}]
    /\ gitdiff \in {g \in Diffs(MaxModified, {"M"}) :
                       \A p \in Paths : g[p] = "M" => dirname(p) \in GraphDirs}
    /\ other_modified = {}
    /\ force = FALSE
    /\ only_book = {}
    /\ book_exceptions = {}
    /\ ignore_dirs = {}
    /\ wellformed = Paths
    /\ file_exceptions = {}

InitClosure == InitGraph /\ InitProgram

-----------------------------------------------------------------------------
(* One iteration of "for root, dirs, files in os.walk(rootdir)" (862-930). *)
WalkDir ==
    /\ pc = "walk"
    /\ walk # <<>>
    /\ LET root == Head(walk)
           isbook == IsBook(root)
           broot == IF isbook THEN root ELSE book_root
           scanned == ~IsSkipped(root) /\ ~build_all_books
           masters == IF scanned
                      THEN {<<root, fn>> : fn \in {f \in files(root) : is_book_master(f)}}
                      ELSE {}
           parsed == IF scanned THEN Parsed(root) ELSE {}
       IN \E order \in Orders(FilterDirs(children(root))) :
            /\ visited' = visited \cup {root}
            /\ IF IsBookException(root)
               THEN /\ walk' = <<>>
                    /\ pc' = "walked"
                    /\ UNCHANGED <<books, book_root, affected_books, included_by, book_bk>>
               ELSE /\ walk' = order \o Tail(walk)
                    /\ pc' = IF walk' = <<>> THEN "walked" ELSE "walk"
                    /\ books' = IF isbook THEN Append(books, root) ELSE books
                    /\ book_root' = broot
                    /\ affected_books' =
                         IF scanned /\ endswith_ha_guide(root) /\ ha_guide_touched
                         THEN affected_books \cup {broot}
                         ELSE affected_books
                    /\ book_bk' = [p \in DOMAIN book_bk \cup masters |->
                                     IF p \in masters THEN broot ELSE book_bk[p]]
                    /\ included_by' = [t \in Paths |->
                                     included_by[t] \cup {f \in parsed : t \in hrefs[f]}]
    /\ UNCHANGED <<tree, args, closure, result, build, rest>>

(* "if not build_all_books:" down to the head of the while loop (932-946). *)
StartClosure ==
    /\ pc = "walked"
    /\ ~build_all_books
    /\ new_files' = get_modified_files
    /\ affected_files' = Range(get_modified_files)
    /\ pc' = "closure"
    /\ UNCHANGED <<tree, args, scan, new_files_to_check, dequeued, result, build, rest>>

(* "while len(new_files) > 0:" and the two assignments under it (951-953). *)
NextRound ==
    /\ pc = "closure"
    /\ new_files_to_check = <<>>
    /\ Len(new_files) > 0
    /\ new_files_to_check' = new_files
    /\ new_files' = <<>>
    /\ UNCHANGED <<tree, args, scan, affected_files, dequeued, pc, result, build, rest>>

(* Variant: a master file is looked behind like any other file. *)
IsTerminal_Never(f) == FALSE

(* "Skip bk*.xml files": the branch of 956-960 that ends with continue. *)
IsTerminal(f) == is_book_master(basename(f))

(* One iteration of "for f in new_files_to_check" (954-966). *)
ProcessFile ==
    /\ pc = "closure"
    /\ new_files_to_check # <<>>
    /\ LET f == Head(new_files_to_check)
       IN /\ dequeued' = [dequeued EXCEPT ![f] = @ + 1]
          /\ new_files_to_check' = Tail(new_files_to_check)
          /\ IF IsTerminal(f)
             THEN IF f \in DOMAIN book_bk
                  THEN /\ affected_books' = affected_books \cup {book_bk[f]}
                       /\ UNCHANGED <<new_files, affected_files, pc>>
                  ELSE /\ pc' = "error"
                       /\ UNCHANGED <<new_files, affected_files, affected_books>>
             ELSE \E order \in Orders(NewIncluders(f, included_by, affected_files)) :
                       /\ new_files' = new_files \o order
                       /\ affected_files' = affected_files \cup Range(order)
                       /\ UNCHANGED <<affected_books, pc>>
    /\ UNCHANGED <<tree, args, walk, books, book_root, included_by, book_bk,
                   visited, result, build, rest>>

(* Variant: an empty affected_books is returned as it is. *)
ReturnedBooks_NoFallback ==
    IF only_book # {} \/ build_all_books THEN Range(books) ELSE affected_books

(* The if / elif chain of 968-976: "books = affected_books" in one branch. *)
ReturnedBooks ==
    IF only_book # {} THEN Range(books)
    ELSE IF build_all_books THEN Range(books)
    ELSE IF affected_books # {} THEN affected_books
    ELSE Range(books)

(* The tail of find_affected_books (968-977). *)
Return ==
    /\ \/ pc = "walked" /\ build_all_books
       \/ pc = "closure" /\ new_files_to_check = <<>> /\ new_files = <<>>
    /\ result' = ReturnedBooks
    /\ pc' = "done"
    /\ UNCHANGED <<tree, args, scan, closure, build, rest>>

Next == WalkDir \/ StartClosure \/ NextRound \/ ProcessFile \/ Return

Spec == Init /\ [][Next]_vars

SpecClosure == InitClosure /\ [][Next]_vars

SpecScan == InitScan /\ [][Next]_vars

(* find_affected_books is one sequential call: it keeps running until it   *)
(* returns or raises.                                                      *)
FairSpecClosure == InitClosure /\ [][Next]_vars /\ WF_vars(Next)

-----------------------------------------------------------------------------
(* build_affected_books (1015-1078) and build_book (706-823).  The books   *)
(* are numbered in the order of sorted(books).                             *)

BookIds == 1 .. NBooks

(* The command of a build that exits with a non-zero status: none, the     *)
(* first one (mvn clean), or one after it.                                 *)
Steps == {"none", "first", "later"}

(* "if maxjobs > 4: maxjobs = 4" *)
PoolCap == 4

(* Variant: the pool has one worker per CPU. *)
maxjobs_Uncapped == cpu_count

(* maxjobs = multiprocessing.cpu_count(), limited to 4 (1036-1041). *)
maxjobs == IF cpu_count > PoolCap THEN PoolCap ELSE cpu_count

(* build_book leaves by an exception and not by its return statement: the  *)
(* handler of CalledProcessError writes output, which is not bound when    *)
(* the first command failed (728, 815); publish_book copies source, which  *)
(* is not bound (or no directory) when the build left no directory under   *)
(* target/docbkx/webhelp and BOOK_MAPPINGS has none (667-678, 693).        *)
build_book_raises(step, has_output) == step = "first" \/ ~has_output

(* return (base_book, result, output, returncode), without the output. *)
build_book_returns(book, step) ==
    <<book, step = "none", IF step = "none" THEN 0 ELSE 1>>

(* Variant: a build that raised takes the books still queued with it. *)
Settle_CancelQueued(t, book, status) ==
    [b \in DOMAIN t |->
        IF b = book THEN status
        ELSE IF status = "raised" /\ t[b] = "queued" THEN "cancelled"
        ELSE t[b]]

(* A task of the pool ends: the worker keeps the outcome of this task,     *)
(* value or exception, to itself and goes on with the next task.           *)
Settle(t, book, status) == [t EXCEPT ![book] = status]

(* Variant: join returns at once. *)
pool_join_NoWait == TRUE

(* pool.join() returns: every task given to the pool has ended and the     *)
(* result handler of the pool has run its callback.                        *)
pool_join_returns == \A b \in DOMAIN task : task[b] \notin {"queued", "running"}

Running == {b \in DOMAIN task : task[b] = "running"}
Queued == {b \in DOMAIN task : task[b] = "queued"}

(* The state at line 1046: find_affected_books has returned up to NBooks   *)
(* books and the pool is created; its variables are not read again.  The   *)
(* machine has one CPU, as many as the limit of the pool, or more.         *)
InitBuild ==
    /\ parent = [d \in Dirs \ {rootdir} |-> rootdir]
    /\ name = [d \in Dirs |-> IF d = rootdir THEN DOC
                               ELSE IF d = 1 THEN BOOKA
                               ELSE IF d = 2 THEN BOOKB ELSE HIDDEN]
    /\ pom = [d \in Dirs |-> TRUE]
    /\ hrefs = [p \in Paths |-> {}]
    /\ wellformed = Paths
    /\ gitdiff = [p \in Paths |-> "-"]
    /\ other_modified = {}
    /\ force = FALSE
    /\ only_book = {}
    /\ book_exceptions = {}
    /\ ignore_dirs = {}
    /\ file_exceptions = {}
    /\ walk = <<>>
    /\ books = <<>>
    /\ book_root = rootdir
    /\ affected_books = {}
    /\ included_by = [p \in Paths |-> {}]
    /\ book_bk = [p \in {} |-> rootdir]
    /\ new_files_to_check = <<>>
    /\ new_files = <<>>
    /\ affected_files = {}
    /\ result = {}
    /\ visited = {}
    /\ dequeued = [p \in Paths |-> 0]
    /\ pc = "queue"
    /\ debug \in BOOLEAN
    /\ ignore_errors \in BOOLEAN
    /\ cpu_count \in {1, PoolCap, MaxCpus}
    /\ \E n \in 0 .. NBooks : build_books = 1 .. n
    /\ todo = Ascending(build_books)
    /\ task = [b \in build_books |-> "-"]
    /\ failed_step = [b \in build_books |-> "-"]
    /\ RESULTS_OF_BUILDS = <<>>
    /\ exit_status = 0
    /\ IdleRest

(* One iteration of "for book in sorted(books)" (1046-1052): with debug    *)
(* the book is built here and the value of build_book is discarded, an     *)
(* exception of build_book ends the process; else the book is queued.      *)
QueueBook ==
    /\ pc = "queue"
    /\ todo # <<>>
    /\ todo' = Tail(todo)
    /\ LET book == Head(todo)
       IN IF debug
          THEN \E step \in Steps, has_output \in BOOLEAN :
                 /\ failed_step' = [failed_step EXCEPT ![book] = step]
                 /\ IF build_book_raises(step, has_output)
                    THEN /\ task' = [task EXCEPT ![book] = "raised"]
                         /\ pc' = "exit"
                         /\ exit_status' = 1
                    ELSE /\ task' = [task EXCEPT ![book] = "returned"]
                         /\ UNCHANGED <<pc, exit_status>>
          ELSE /\ task' = [task EXCEPT ![book] = "queued"]
               /\ UNCHANGED <<failed_step, pc, exit_status>>
    /\ UNCHANGED <<rest, tree, args, scan, closure, result, debug, ignore_errors, cpu_count,
                   build_books, RESULTS_OF_BUILDS>>

(* pool.close() and the call of pool.join() (1053-1055). *)
ClosePool ==
    /\ pc = "queue"
    /\ todo = <<>>
    /\ pc' = "join"
    /\ UNCHANGED <<tree, args, scan, closure, result, build, rest>>

(* A free worker of the pool takes the oldest queued task. *)
TaskStart ==
    /\ pc # "exit"
    /\ Queued # {}
    /\ Cardinality(Running) < maxjobs
    /\ LET book == CHOOSE b \in Queued : \A c \in Queued : b <= c
       IN task' = [task EXCEPT ![book] = "running"]
    /\ UNCHANGED <<rest, tree, args, scan, closure, result, pc, debug, ignore_errors, cpu_count,
                   build_books, todo, failed_step, RESULTS_OF_BUILDS, exit_status>>

(* build_book ends in a worker: its value goes to the callback             *)
(* logging_build_book (615-617); for an exception no callback is called.   *)
TaskDone ==
    /\ pc # "exit"
    /\ \E book \in Running, step \in Steps, has_output \in BOOLEAN :
         /\ failed_step' = [failed_step EXCEPT ![book] = step]
         /\ IF build_book_raises(step, has_output)
            THEN /\ task' = Settle(task, book, "raised")
                 /\ UNCHANGED RESULTS_OF_BUILDS
            ELSE /\ task' = Settle(task, book, "recorded")
                 /\ RESULTS_OF_BUILDS' =
                      Append(RESULTS_OF_BUILDS, build_book_returns(book, step))
    /\ UNCHANGED <<rest, tree, args, scan, closure, result, pc, debug, ignore_errors, cpu_count,
                   build_books, todo, exit_status>>

(* pool.join() returns (1055). *)
Join ==
    /\ pc = "join"
    /\ pool_join_returns
    /\ pc' = "report"
    /\ UNCHANGED <<tree, args, scan, closure, result, build, rest>>

(* The report and the end of the process (1057-1078; main returns None). *)
any_failures == \E i \in 1 .. Len(RESULTS_OF_BUILDS) : ~RESULTS_OF_BUILDS[i][2]
Report ==
    /\ pc = "report"
    /\ exit_status' = IF any_failures /\ ~ignore_errors THEN 1 ELSE 0
    /\ pc' = "exit"
    /\ UNCHANGED <<rest, tree, args, scan, closure, result, debug, ignore_errors, cpu_count,
                   build_books, todo, task, failed_step, RESULTS_OF_BUILDS>>

NextBuild == QueueBook \/ ClosePool \/ TaskStart \/ TaskDone \/ Join \/ Report

SpecBuild == InitBuild /\ [][NextBuild]_vars

-----------------------------------------------------------------------------
(* States in which a part of the program has not run. *)
IdleFind ==
    /\ books = <<>>
    /\ book_root = rootdir
    /\ affected_books = {}
    /\ included_by = [p \in Paths |-> {}]
    /\ book_bk = [p \in {} |-> rootdir]
    /\ new_files_to_check = <<>>
    /\ new_files = <<>>
    /\ affected_files = {}
    /\ result = {}
    /\ dequeued = [p \in Paths |-> 0]

IdlePool ==
    /\ debug = FALSE
    /\ ignore_errors = FALSE
    /\ cpu_count = 1
    /\ build_books = {}
    /\ todo = <<>>
    /\ task = [b \in {} |-> "-"]
    /\ failed_step = [b \in {} |-> "-"]
    /\ RESULTS_OF_BUILDS = <<>>

(* A tree of untouched books with no option set. *)
IdleTree ==
    /\ parent = [d \in Dirs \ {rootdir} |-> d - 1]
    /\ name = [d \in Dirs |-> IF d = rootdir THEN DOC ELSE BOOKA]
    /\ pom = [d \in Dirs |-> TRUE]
    /\ hrefs = [p \in Paths |-> {}]
    /\ wellformed = Paths
    /\ gitdiff = [p \in Paths |-> "-"]
    /\ other_modified = {}
    /\ force = FALSE
    /\ only_book = {}
    /\ book_exceptions = {}
    /\ ignore_dirs = {}
    /\ file_exceptions = {}

-----------------------------------------------------------------------------
(* check_deleted_files (372-450). *)

(* get_modified_files(rootdir, "--diff-filter=D"), made absolute (378,    *)
(* 388): git diff --relative, run in rootdir, lists the deleted paths     *)
(* below rootdir and no path outside it.                                  *)
deleted_files == {p \in Paths : gitdiff[p] = "D"}

(* The two filters of dirs at the head of the loop body (396-404). *)
FilterDeletedDirs(ds) ==
    {d \in ds : name[d] # TARGET /\ ~startswith_dot(name[d])}

(* The files of root that are parsed (408-417). *)
CheckedFiles(root) ==
    {p \in {<<root, fn>> : fn \in
               {f \in files(root) : /\ f[3] = ".xml"
                                    /\ f # POMXML
                                    /\ f \notin file_exceptions}} :
        p \in wellformed}

(* The tests of 425 and 436: abspath(href), taken with root as the        *)
(* working directory (406), is one of deleted_files.                      *)
RefersToDeleted(f) == \E t \in hrefs[f] : t \in deleted_files

(* Checks: a directory 1 named a or target under rootdir and a directory  *)
(* 2 named b or .git under rootdir or under 1; at most MaxModified        *)
(* include directives that name the chapters of 1 and 2; at most one      *)
(* chapter that is not well-formed XML; ch.xml excepted or not; the last  *)
(* commit deleted at most MaxChanged of the two chapters, and deleted or  *)
(* kept a figure outside rootdir that the chapter of 1 may refer to.      *)
DeletedEdges ==
    {<<f, t>> : f \in ({rootdir, 1, 2} \X {CH}) \cup {<<1, HADOCINFO>>},
                t \in {1, 2} \X {CH}}

RECURSIVE DeletedEdgeSets(_)
DeletedEdgeSets(k) ==
    IF k = 0 THEN {{}}
    ELSE LET S == DeletedEdgeSets(k - 1)
         IN S \cup {s \cup {e} : s \in S, e \in DeletedEdges}

InitDeleted ==
    /\ \E up \in {rootdir, 1} :
          parent = [d \in Dirs \ {rootdir} |-> IF d = 1 THEN rootdir
                                               ELSE IF d = 2 THEN up ELSE d - 1]
    /\ \E n1 \in {BOOKA, TARGET}, n2 \in {BOOKB, HIDDEN} :
          name = [d \in Dirs |-> IF d = rootdir THEN DOC
                                 ELSE IF d = 1 THEN n1
                                 ELSE IF d = 2 THEN n2 ELSE HIDDEN]
    /\ pom = [d \in Dirs |-> d <= 2]
    /\ \E E \in DeletedEdgeSets(MaxModified) :
           hrefs = [p \in Paths |-> {t \in Paths : <<p, t>> \in E}]
    /\ wellformed \in {Paths} \cup {Paths \ {p} : p \in {1, 2} \X {CH}}
    /\ file_exceptions \in {{}, {CH}}
    /\ gitdiff \in {g \in Diffs(MaxChanged, {"D"}) :
                       \A p \in Paths : g[p] = "D" => p \in {1, 2} \X {CH}}
    /\ other_modified = {}
    /\ force = FALSE
    /\ only_book = {}
    /\ book_exceptions = {}
    /\ ignore_dirs = {}
    /\ outside_deleted \in BOOLEAN
    /\ outside_refs \in {{}, {<<1, CH>>}}
    /\ missing_reference = FALSE
    /\ IdleBeyondDeletions
    /\ pc = "check_deleted"
    /\ walk = <<>>
    /\ visited = {}
    /\ exit_status = 0
    /\ IdleFind
    /\ IdlePool

(* The head of check_deleted_files, down to the os.walk loop (377-394). *)
CheckDeletedStart ==
    /\ pc = "check_deleted"
    /\ IF deleted_files = {}
       THEN /\ pc' = "returned"
            /\ UNCHANGED walk
       ELSE /\ pc' = "walk_deleted"
            /\ walk' = <<rootdir>>
    /\ missing_reference' = FALSE
    /\ UNCHANGED <<tree, args, books, book_root, affected_books, included_by, book_bk,
                   visited, closure, result, build, outside_deleted, outside_refs,
                   beyond_deletions>>

(* One iteration of "for root, dirs, files in os.walk(rootdir)" (394-441). *)
CheckDeletedDir ==
    /\ pc = "walk_deleted"
    /\ walk # <<>>
    /\ LET root == Head(walk)
       IN \E order \in Orders(FilterDeletedDirs(children(root))) :
            /\ walk' = order \o Tail(walk)
            /\ visited' = visited \cup {root}
            /\ missing_reference' =
                 (missing_reference \/ \E f \in CheckedFiles(root) : RefersToDeleted(f))
    /\ UNCHANGED <<tree, args, books, book_root, affected_books, included_by, book_bk,
                   closure, pc, result, build, outside_deleted, outside_refs,
                   beyond_deletions>>

(* The end of check_deleted_files (442-450). *)
CheckDeletedEnd ==
    /\ pc = "walk_deleted"
    /\ walk = <<>>
    /\ IF missing_reference
       THEN /\ pc' = "exit"
            /\ exit_status' = 1
       ELSE /\ pc' = "returned"
            /\ UNCHANGED exit_status
    /\ UNCHANGED <<tree, args, scan, closure, result, pool, rest>>

NextDeleted == CheckDeletedStart \/ CheckDeletedDir \/ CheckDeletedEnd

SpecDeleted == InitDeleted /\ [][NextDeleted]_vars

-----------------------------------------------------------------------------
(* update_flagmappings of autohelp.py (416-443). *)

(* Option names: ungrouped ones and "group/name" ones. cmp(x, y) of two   *)
(* names is the order of their ranks.                                     *)
OptionNames == {"api/port", "debug", "verbose"}
StrRank(x) == IF x = "api/port" THEN 1
              ELSE IF x = "debug" THEN 2
              ELSE IF x = "old" THEN 3 ELSE 4
cmp(x, y) == IF x < y THEN -1 ELSE IF x > y THEN 1 ELSE 0
HasSlash(x) == x = "api/port"
prefix(x) == IF x = "api/port" THEN "api" ELSE x

(* OptionsCache._cmpopts (214-227). *)
_cmpopts(x, y) ==
    IF HasSlash(x) /\ HasSlash(y)
    THEN IF prefix(x) # prefix(y) THEN cmp(StrRank(prefix(x)), StrRank(prefix(y)))
         ELSE cmp(StrRank(x), StrRank(y))
    ELSE IF HasSlash(x) THEN 1
    ELSE IF HasSlash(y) THEN -1
    ELSE cmp(StrRank(x), StrRank(y))

(* self._opt_names.sort(OptionsCache._cmpopts) (178, 206). *)
SortedNames(S) ==
    CHOOSE s \in Orders(S) : \A i, j \in 1 .. Len(s) : i < j => _cmpopts(s[i], s[j]) < 0

(* A line of the file, as the words that single spaces separate:          *)
(* <<flag>> or <<flag, category>>.                                        *)
FileFlags == {"debug", "old"}
Categories == {"api", "logging"}
Lines == {<<f>> : f \in FileFlags} \cup {<<f, c>> : f \in FileFlags, c \in Categories}

RECURSIVE LineSeqs(_)
LineSeqs(k) ==
    IF k = 0 THEN {<<>>}
    ELSE LET S == LineSeqs(k - 1)
         IN S \cup {Append(s, l) : s \in S, l \in Lines}

(* "flag, category = line.split(' ', 1)" and its ValueError branch        *)
(* (426-430).                                                             *)
split_line(line) ==
    IF Len(line) >= 2 THEN <<line[1], line[2]>> ELSE <<line[1], "Unknown">>

(* Variant: of several lines for an option the first one counts. *)
merged_category_FirstLine(opt, orig) ==
    IF opt \in DOMAIN orig THEN orig[opt][1] ELSE "Unknown"

(* The test of 435-439. *)
merged_category(opt, orig) ==
    IF opt \in DOMAIN orig /\ Len(orig[opt]) = 1 THEN orig[opt][1] ELSE "Unknown"

InitFlags ==
    /\ \E S \in SUBSET OptionNames : opt_names = SortedNames(S)
    /\ flagmappings \in LineSeqs(MaxLines)
    /\ lines_left = flagmappings
    /\ original_flags = [f \in {} |-> <<>>]
    /\ opts_left = <<>>
    /\ updated_flags = <<>>
    /\ flagmappings_new = <<>>
    /\ pc = "read"
    /\ walk = <<>>
    /\ visited = {}
    /\ exit_status = 0
    /\ IdleTree
    /\ IdleFind
    /\ IdlePool
    /\ IdleBeyondFlags

(* One iteration of "for line in f" (425-431). *)
ReadLine ==
    /\ pc = "read"
    /\ lines_left # <<>>
    /\ LET flag == split_line(Head(lines_left))[1]
           category == split_line(Head(lines_left))[2]
       IN original_flags' =
            [f \in DOMAIN original_flags \cup {flag} |->
                IF f = flag
                THEN Append(IF f \in DOMAIN original_flags THEN original_flags[f] ELSE <<>>,
                            category)
                ELSE original_flags[f]]
    /\ lines_left' = Tail(lines_left)
    /\ UNCHANGED <<opt_names, flagmappings, opts_left, updated_flags, flagmappings_new,
                   pc, beyond_flags>>

(* The file is read to its end; "updated_flags = []" (433). *)
StartMerge ==
    /\ pc = "read"
    /\ lines_left = <<>>
    /\ opts_left' = opt_names
    /\ updated_flags' = <<>>
    /\ pc' = "merge"
    /\ UNCHANGED <<opt_names, flagmappings, lines_left, original_flags,
                   flagmappings_new, beyond_flags>>

(* One iteration of "for opt in options.get_option_names()" (434-439). *)
MergeOption ==
    /\ pc = "merge"
    /\ opts_left # <<>>
    /\ LET opt == Head(opts_left)
       IN updated_flags' = Append(updated_flags, <<opt, merged_category(opt, original_flags)>>)
    /\ opts_left' = Tail(opts_left)
    /\ UNCHANGED <<opt_names, flagmappings, lines_left, original_flags,
                   flagmappings_new, pc, beyond_flags>>

(* The file <package_name>.flagmappings.new is written (441-443). *)
WriteFlagmappings ==
    /\ pc = "merge"
    /\ opts_left = <<>>
    /\ flagmappings_new' = updated_flags
    /\ pc' = "written"
    /\ UNCHANGED <<opt_names, flagmappings, lines_left, original_flags, opts_left,
                   updated_flags, beyond_flags>>

NextFlags == ReadLine \/ StartMerge \/ MergeOption \/ WriteFlagmappings

SpecFlags == InitFlags /\ [][NextFlags]_vars

-----------------------------------------------------------------------------
(* build_book (698-823). *)

BookNames == {"install-guide", "high-availability-guide", "v3", "image-api-v2", "a"}

ALLFOUR == "install-guide (for Debian, Fedora, openSUSE, Ubuntu)"

(* The commands of the try block, in program order, each named by what   *)
(* tells it from the others: the value of -Doperating.system for the     *)
(* builds of the install guide ("v3" stands for a book directory that    *)
(* ends with openstack-identity-api/v3).                                 *)
Commands(b) ==
    IF b = "install-guide"
    THEN <<"mvn clean", "apt-debian", "yum", "zypper", "apt">>
    ELSE IF b = "high-availability-guide"
    THEN <<"mvn clean", "build-ha-guide.sh", "mvn generate-sources">>
    ELSE IF b \in {"v3", "image-api-v2"}
    THEN <<"mvn clean", "markdown-docbook.sh", "mvn generate-sources">>
    ELSE <<"mvn clean", "mvn generate-sources">>

(* Variant: base_book is left as it is before a build. *)
RenamedFor_Never(cmd, bb) == bb

(* The assignments to base_book in front of the builds (735, 744, 754,   *)
(* 763).                                                                 *)
RenamedFor(cmd, bb) ==
    IF cmd = "apt-debian" THEN "install-guide (for debian)"
    ELSE IF cmd = "yum" THEN "install-guide (for Fedora)"
    ELSE IF cmd = "zypper" THEN "install-guide (for openSUSE)"
    ELSE IF cmd = "apt" THEN "install-guide (for Ubuntu)"
    ELSE bb

InitBookBuild ==
    /\ base_book_orig \in BookNames
    /\ base_book = base_book_orig
    /\ failing \in SUBSET (1 .. Len(Commands(base_book_orig)))
    /\ webhelp_dir \in BOOLEAN
    /\ commands_run = <<>>
    /\ build_result = TRUE
    /\ build_returns = <<>>
    /\ pc = "try"
    /\ walk = <<>>
    /\ visited = {}
    /\ exit_status = 0
    /\ IdleTree
    /\ IdleFind
    /\ IdlePool
    /\ IdleBeyondBookbuild

(* The next check_output call of the try block (728-813): its command    *)
(* exits with zero and the block goes on, or the call raises             *)
(* CalledProcessError.                                                   *)
RunCommand ==
    /\ pc = "try"
    /\ LET i == Len(commands_run) + 1
           cmd == Commands(base_book_orig)[i]
           renamed == RenamedFor(cmd, base_book)
       IN /\ commands_run' = Append(commands_run, cmd)
          /\ IF i \in failing
             THEN /\ base_book' = renamed
                  /\ pc' = "except"
             ELSE IF i < Len(Commands(base_book_orig))
             THEN /\ base_book' = renamed
                  /\ pc' = "try"
             ELSE /\ base_book' = IF base_book_orig = "install-guide" THEN ALLFOUR
                                  ELSE renamed
                  /\ pc' = "publish"
    /\ UNCHANGED <<base_book_orig, failing, webhelp_dir, build_result, build_returns,
                   beyond_bookbuild>>

(* The handler of CalledProcessError (814-818): it first writes output,  *)
(* which no assignment has bound when the first command failed.          *)
HandleCalledProcessError ==
    /\ pc = "except"
    /\ IF Len(commands_run) = 1
       THEN /\ pc' = "raised"
            /\ UNCHANGED build_result
       ELSE /\ build_result' = FALSE
            /\ pc' = "publish"
    /\ UNCHANGED <<base_book_orig, base_book, failing, webhelp_dir, commands_run,
                   build_returns, beyond_bookbuild>>

(* publish_book and the return (820-823): with no directory of the book  *)
(* under target/docbkx/webhelp and no mapping, source is unbound at 693. *)
PublishAndReturn ==
    /\ pc = "publish"
    /\ IF webhelp_dir
       THEN /\ build_returns' = <<base_book, build_result>>
            /\ pc' = "returned"
       ELSE /\ pc' = "raised"
            /\ UNCHANGED build_returns
    /\ UNCHANGED <<base_book_orig, base_book, failing, webhelp_dir, commands_run,
                   build_result, beyond_bookbuild>>

NextBookBuild == RunCommand \/ HandleCalledProcessError \/ PublishAndReturn

SpecBookBuild == InitBookBuild /\ [][NextBookBuild]_vars

-----------------------------------------------------------------------------
(* handle_options (1170-1227) and main (1230-1281). *)

CheckOptions == {"check-all", "check-build", "check-deletions", "check-niceness",
                 "check-syntax"}

(* Names of the last commit, relative to the top of the repository, as   *)
(* their path components.                                                *)
CommitNames == {<<"www", "index.html">>, <<"www", "static", "a.css">>,
                <<"wwwroot", "x.html">>, <<"doc", "a", "ch.xml">>}

(* f.startswith("www/") (295). *)
startswith_www(f) == Len(f) >= 2 /\ f[1] = "www"

(* Variant: check_only_www is not looked at. *)
www_touched_AnyWww(check_only_www) == \E f \in modified_files : startswith_www(f)

(* www_touched (278-302). *)
www_touched(check_only_www) ==
    LET www_changed == \E f \in modified_files : startswith_www(f)
        other_changed == \E f \in modified_files : ~startswith_www(f)
    IN IF check_only_www THEN www_changed /\ ~other_changed ELSE www_changed

(* Variant: with no check requested none is switched on. *)
all_checks_NoDefault(given) == "check-all" \in given

(* CONF.check_all after 1197-1199. *)
all_checks(given) ==
    IF given \cap {"check-build", "check-deletions", "check-niceness", "check-syntax"} = {}
    THEN TRUE
    ELSE "check-all" \in given

InitMain ==
    /\ argv \in SUBSET CheckOptions
    /\ check_all = FALSE
    /\ check_build = FALSE
    /\ check_deletions = FALSE
    /\ check_niceness = FALSE
    /\ check_syntax = FALSE
    /\ mismatch \in BOOLEAN
    /\ modified_files \in SUBSET CommitNames
    /\ exits \in SUBSET {"validate", "check_deleted_files", "build_affected_books"}
    /\ ran = <<>>
    /\ force \in BOOLEAN
    /\ parent = [d \in Dirs \ {rootdir} |-> d - 1]
    /\ name = [d \in Dirs |-> IF d = rootdir THEN DOC ELSE BOOKA]
    /\ pom = [d \in Dirs |-> TRUE]
    /\ hrefs = [p \in Paths |-> {}]
    /\ wellformed = Paths
    /\ gitdiff = [p \in Paths |-> "-"]
    /\ other_modified = {}
    /\ only_book = {}
    /\ book_exceptions = {}
    /\ ignore_dirs = {}
    /\ file_exceptions = {}
    /\ pc = "handle_options"
    /\ walk = <<>>
    /\ visited = {}
    /\ exit_status = 0
    /\ IdleFind
    /\ IdlePool
    /\ IdleBeyondMainprog

(* handle_options (1170-1227): the command line is parsed (1178), the    *)
(* check options are completed (1197-1205) and the mappings of books are *)
(* tested (1207-1227).                                                   *)
HandleOptions ==
    /\ pc = "handle_options"
    /\ check_all' = all_checks(argv)
    /\ check_deletions' = ("check-deletions" \in argv \/ check_all')
    /\ check_syntax' = ("check-syntax" \in argv \/ check_all')
    /\ check_build' = ("check-build" \in argv \/ check_all')
    /\ check_niceness' = ("check-niceness" \in argv \/ check_all')
    /\ IF check_build' /\ mismatch
       THEN /\ pc' = "exit"
            /\ exit_status' = 1
       ELSE /\ pc' = "publish_www"
            /\ UNCHANGED exit_status
    /\ UNCHANGED <<argv, mismatch, modified_files, exits, ran, beyond_main_exit>>

(* "if CONF.check_build and www_touched(False): publish_www()"           *)
(* (1246-1247).                                                          *)
PublishWww ==
    /\ pc = "publish_www"
    /\ ran' = IF check_build /\ www_touched(FALSE) THEN Append(ran, "publish_www") ELSE ran
    /\ pc' = "only_www"
    /\ UNCHANGED <<argv, check_all, check_build, check_deletions, check_niceness,
                   check_syntax, mismatch, modified_files, exits, beyond_mainprog>>

(* "if not CONF.force and www_touched(True): ... return" (1249-1251). *)
OnlyWww ==
    /\ pc = "only_www"
    /\ pc' = IF ~force /\ www_touched(TRUE) THEN "returned" ELSE "validate"
    /\ UNCHANGED <<mainprog, beyond_mainprog>>

(* A check that main calls: it returns, or it ends the process. *)
Call(enabled, function, label, next) ==
    IF enabled
    THEN /\ ran' = Append(ran, function)
         /\ IF label \in exits
            THEN /\ pc' = "exit"
                 /\ exit_status' = 1
            ELSE /\ pc' = next
                 /\ UNCHANGED exit_status
    ELSE /\ pc' = next
         /\ UNCHANGED <<ran, exit_status>>

(* The validation of the files (1253-1267). *)
Validate ==
    /\ pc = "validate"
    /\ Call(check_syntax \/ check_niceness,
            IF force THEN "validate_all_files" ELSE "validate_modified_files",
            "validate", "deletions")
    /\ UNCHANGED <<argv, check_all, check_build, check_deletions, check_niceness,
                   check_syntax, mismatch, modified_files, exits, beyond_main_exit>>

(* "if CONF.check_deletions: check_deleted_files(...)" (1269-1270). *)
CheckDeletions ==
    /\ pc = "deletions"
    /\ Call(check_deletions, "check_deleted_files", "check_deleted_files", "build")
    /\ UNCHANGED <<argv, check_all, check_build, check_deletions, check_niceness,
                   check_syntax, mismatch, modified_files, exits, beyond_main_exit>>

(* "if CONF.check_build:" and its body (1272-1281). *)
BuildBooks ==
    /\ pc = "build"
    /\ Call(check_build, "build_affected_books", "build_affected_books", "returned")
    /\ UNCHANGED <<argv, check_all, check_build, check_deletions, check_niceness,
                   check_syntax, mismatch, modified_files, exits, beyond_main_exit>>

NextMain ==
    HandleOptions \/ PublishWww \/ OnlyWww \/ Validate \/ CheckDeletions \/ BuildBooks

SpecMain == InitMain /\ [][NextMain]_vars

-----------------------------------------------------------------------------
(* verify_nice_usage_of_whitespaces (215-261). *)

(* The characters of a line, grouped: a blank or a tab, a word character *)
(* of the class [\w\-().:!?{}\[\]], a start tag and an end tag.          *)
SPACE == <<"ws", " ">>
TAB == <<"ws", "\t">>
WORD == <<"word", "w">>
STAG(e) == <<"<>", e>>
ETAG(e) == <<"</>", e>>
Tokens == {SPACE, TAB, WORD, STAG("para"), ETAG("para")}

RECURSIVE TokenSeqs(_)
TokenSeqs(k) ==
    IF k = 0 THEN {<<>>}
    ELSE LET S == TokenSeqs(k - 1)
         IN S \cup {Append(s, t) : s \in S, t \in Tokens}

elements == <<"listitem", "para", "td", "th", "command", "literal", "title", "caption",
              "filename", "userinput", "programlisting">>

(* The compiled patterns (217-239), each as what it asks of a line. *)
checks ==
    LET pair(i) == IF i % 2 = 0 THEN <<"after start tag", elements[i \div 2]>>
                   ELSE <<"before end tag", elements[(i - 1) \div 2]>>
    IN [i \in 1 .. (1 + 2 * Len(elements)) |->
           IF i = 1 THEN <<"trailing", "">> ELSE pair(i)]

IsWs(t) == t[1] = "ws"

(* check.match(line) for a line that ends with a newline. *)
match(check, line) ==
    IF check[1] = "trailing"
    THEN Len(line) >= 1 /\ IsWs(line[Len(line)])
    ELSE IF check[1] = "after start tag"
    THEN \E i, j \in 1 .. Len(line) :
            /\ i + 1 < j
            /\ line[i] = STAG(check[2])
            /\ \A k \in (i + 1) .. (j - 1) : IsWs(line[k])
            /\ line[j] = WORD
    ELSE \E i, j \in 1 .. Len(line) :
            /\ i + 1 < j
            /\ line[i] = WORD
            /\ \A k \in (i + 1) .. (j - 1) : IsWs(line[k])
            /\ line[j] = ETAG(check[2])

(* Values of Python: the number lc and the string str(lc); a number and  *)
(* a string are never equal.                                             *)
int(n) == [type |-> "int", val |-> n]
str(n) == [type |-> "str", val |-> n]

(* "for check in checks:" with its test and append (246-248), from the   *)
(* i-th check on.                                                        *)
RECURSIVE RunChecks(_, _, _, _)
RunChecks(i, line, n, affected) ==
    IF i > Len(checks) THEN affected
    ELSE RunChecks(i + 1, line, n,
                   IF match(checks[i], line) /\ int(n) \notin Range(affected)
                   THEN Append(affected, str(n))
                   ELSE affected)

(* Files: one line of at most MaxTokens tokens, alone or followed by a   *)
(* line "w " or by "<para> w".                                           *)
InitWhitespaces ==
    /\ \E l \in TokenSeqs(MaxTokens) :
          docfile \in {<<l>>, <<l, <<WORD, SPACE>>>>, <<l, <<STAG("para"), SPACE, WORD>>>>}
    /\ doc_left = docfile
    /\ lc = 0
    /\ affected_lines = <<>>
    /\ tab_lines = <<>>
    /\ pc = "lines"
    /\ walk = <<>>
    /\ visited = {}
    /\ exit_status = 0
    /\ IdleTree
    /\ IdleFind
    /\ IdlePool
    /\ IdleBeyondWhitespaces

(* One iteration of "for line in open(docfile, 'r')" (241-248). *)
CheckLine ==
    /\ pc = "lines"
    /\ doc_left # <<>>
    /\ LET line == Head(doc_left)
       IN /\ lc' = lc + 1
          /\ tab_lines' = IF \E i \in 1 .. Len(line) : line[i] = TAB
                          THEN Append(tab_lines, str(lc'))
                          ELSE tab_lines
          /\ affected_lines' = RunChecks(1, line, lc', affected_lines)
    /\ doc_left' = Tail(doc_left)
    /\ UNCHANGED <<docfile, pc, beyond_whitespaces>>

(* The end of the file: ValueError with the lists, or None (250-259). *)
ReportWhitespaces ==
    /\ pc = "lines"
    /\ doc_left = <<>>
    /\ pc' = IF Len(affected_lines) > 0 \/ Len(tab_lines) > 0 THEN "raised" ELSE "returned"
    /\ UNCHANGED <<whitespaces, beyond_whitespaces>>

NextWhitespaces == CheckLine \/ ReportWhitespaces

SpecWhitespaces == InitWhitespaces /\ [][NextWhitespaces]_vars

-----------------------------------------------------------------------------
(* generate_command of commands.py (85-147). *)

(* Lines of the output of "<os_command> --help"; split('\n') gives at   *)
(* least one line.                                                      *)
HelpLines == {"", "  text", "  <subcommand> ...", "usage: x [-h]", "x <subcommand> -h",
              "Positional arguments:", "Optional arguments:", "Examples:"}

RECURSIVE HelpTexts(_)
HelpTexts(k) ==
    IF k = 0 THEN {<<>>}
    ELSE LET S == HelpTexts(k - 1)
         IN S \cup {Append(s, l) : s \in S, l \in HelpLines}

(* The tests of the loop body on a line. *)
IsHeading(line) == line \notin {"", "  text", "  <subcommand> ..."}
HasSubcommand(line) == line \in {"  <subcommand> ...", "x <subcommand> -h"}
HasPositional(line) == line = "Positional arguments:"
StartsOptional(line) == line = "Optional arguments:"
StartsExamples(line) == line = "Examples:"
HasSubcommandDots(line) == line = "  <subcommand> ..."

(* quote_xml (43-46). *)
quote_xml(line) ==
    IF line = "  <subcommand> ..." THEN "  &lt;subcommand> ..."
    ELSE IF line = "x <subcommand> -h" THEN "x &lt;subcommand> -h"
    ELSE line

(* The pieces of markup the function writes. *)
OPENSCREEN == "<screen><computeroutput>"
CLOSESCREEN == "</computeroutput></screen>"
CLOSESECTION == "</section>"
OPENSECTION == "<section>"

(* The four writes that end a section and start the next one (109-115,  *)
(* 121-127, 131-136).                                                   *)
NewSection(out) == out \o <<CLOSESCREEN, CLOSESECTION, OPENSECTION>>

InitCommand ==
    /\ help_lines \in HelpTexts(MaxHelp) \ {<<>>}
    /\ help_left = help_lines
    /\ ignore_next_lines = FALSE
    /\ next_line_screen = TRUE
    /\ os_file = <<>>
    /\ pc = "help"
    /\ walk = <<>>
    /\ visited = {}
    /\ exit_status = 0
    /\ IdleTree
    /\ IdleFind
    /\ IdlePool
    /\ IdleBeyondCommand

(* One iteration of "for line in help_lines" (96-144). *)
HelpLine ==
    /\ pc = "help"
    /\ help_left # <<>>
    /\ LET line == Head(help_left)
           xline == quote_xml(line)
       IN IF IsHeading(line)
          THEN IF HasSubcommand(line)
               THEN /\ ignore_next_lines' = FALSE
                    /\ UNCHANGED <<next_line_screen, os_file>>
               ELSE IF HasPositional(line)
               THEN /\ ignore_next_lines' = FALSE
                    /\ next_line_screen' = TRUE
                    /\ UNCHANGED os_file
               ELSE IF StartsOptional(line)
               THEN /\ os_file' = NewSection(os_file)
                    /\ next_line_screen' = TRUE
                    /\ ignore_next_lines' = FALSE
               ELSE IF StartsExamples(line)
               THEN /\ os_file' = NewSection(os_file)
                    /\ next_line_screen' = TRUE
                    /\ UNCHANGED ignore_next_lines
               ELSE UNCHANGED <<ignore_next_lines, next_line_screen, os_file>>
          ELSE IF HasSubcommandDots(line)
          THEN /\ os_file' = NewSection(Append(os_file, xline))
               /\ ignore_next_lines' = TRUE
               /\ UNCHANGED next_line_screen
          ELSE IF ~ignore_next_lines
          THEN IF next_line_screen
               THEN /\ os_file' = os_file \o <<OPENSCREEN, xline>>
                    /\ next_line_screen' = FALSE
                    /\ UNCHANGED ignore_next_lines
               ELSE /\ os_file' = IF line # "" THEN Append(os_file, xline) ELSE os_file
                    /\ UNCHANGED <<ignore_next_lines, next_line_screen>>
          ELSE UNCHANGED <<ignore_next_lines, next_line_screen, os_file>>
    /\ help_left' = Tail(help_left)
    /\ UNCHANGED <<help_lines, pc, beyond_command>>

(* The two writes after the loop (146-147). *)
EndCommand ==
    /\ pc = "help"
    /\ help_left = <<>>
    /\ os_file' = os_file \o <<CLOSESCREEN, CLOSESECTION>>
    /\ pc' = "returned"
    /\ UNCHANGED <<help_lines, help_left, ignore_next_lines, next_line_screen,
                   beyond_command>>

NextCommand == HelpLine \/ EndCommand

SpecCommand == InitCommand /\ [][NextCommand]_vars

-----------------------------------------------------------------------------
(* Vocabulary of the properties. *)

Modified == {p \in Paths : gitdiff[p] = "M"}
Returned == pc = "done"
Closing == Returned /\ ~build_all_books
Masters == {p \in Paths : is_book_master(basename(p))}

(* The files that reach a file of S by include directives recorded in      *)
(* included_by, the files of S included; Stop are files not looked behind. *)
RECURSIVE IncludersOf(_, _)
IncludersOf(S, Stop) ==
    LET T == S \cup UNION {included_by[x] : x \in S \ Stop}
    IN IF T = S THEN S ELSE IncludersOf(T, Stop)

(* doc/high-availability-guide *)
IsHaGuideDir(d) == d # rootdir /\ parent[d] = rootdir /\ name[d] = HAGUIDE

C2_ClosureMinimal ==
    (Closing /\ affected_books # {}) =>
        \A B \in result :
            \/ \E m \in DOMAIN book_bk \cap IncludersOf(Modified, {}) : book_bk[m] = B
            \/ /\ IsHaGuideDir(B)
               /\ \E p \in Modified : B \in ancestors(dirname(p))

(* C3: the closure loop terminates: every pass through the loop strictly   *)
(* decreases a natural number, Measure, which counts the files not yet in  *)
(* affected_files and the files still waiting in the two lists.            *)
Measure ==
    (Cardinality(Paths \ affected_files) + Len(new_files)) * (Cardinality(Paths) + 1)
        + Len(new_files_to_check)
C3_Terminates ==
    [][(pc = "closure" /\ pc' = "closure") => Measure' < Measure]_vars

(* C3, read as a liveness property of FairSpecClosure: the call returns or *)
(* raises.                                                                 *)
C3_EventuallyEnds == <>(pc \in {"done", "error"})

(* C3: the call returned after the closure processed a file that includes  *)
(* itself and lies on a cycle with another file.                           *)
C3_Witness ==
    /\ Closing
    /\ \E f, g \in Paths \ Masters :
          /\ f # g
          /\ f \in included_by[f]
          /\ g \in included_by[f]
          /\ f \in included_by[g]
          /\ dequeued[f] = 1 /\ dequeued[g] = 1

(* C4: no file is taken from the frontier more than once. *)
C4_DequeuedOnce == \A p \in Paths : dequeued[p] <= 1

(* C4: a changed file z was reached again from the changed file x, both    *)
(* directly and through y, and each of the three was processed once.       *)
C4_Witness ==
    /\ Closing
    /\ \E x, z \in Modified : \E y \in Paths \ Modified :
          /\ x # z
          /\ y \in included_by[x]
          /\ z \in included_by[x]
          /\ z \in included_by[y]
          /\ dequeued[x] = 1 /\ dequeued[y] = 1 /\ dequeued[z] = 1

(* C5: every element of the returned set is a discovered book. *)
C5_ReturnsBooks == Returned => result \subseteq Range(books)

(* C6: the closure never fails on a key missing from book_bk. *)
C6_NoKeyError == pc # "error"

(* C7: when the walk has ended, every directory outside the pruned         *)
(* subtrees (dot, ignored and target directories, excluded books) was      *)
(* visited, and every book directory among them is in books.               *)
RECURSIVE ToVisit(_)
ToVisit(d) ==
    /\ name[d] \notin book_exceptions
    /\ \/ d = rootdir
       \/ /\ name[d] # TARGET
          /\ name[d][1] # "."
          /\ name[d] \notin ignore_dirs
          /\ ToVisit(parent[d])
C7_ScanComplete ==
    pc # "walk" =>
        \A d \in Dirs :
            ToVisit(d) => /\ d \in visited
                          /\ IsBook(d) => d \in Range(books)

(* C8: a directory whose base name is in book_exceptions is never in books *)
(* nor among the affected or returned books.                               *)
C8_ExclusionRespected ==
    \A d \in Dirs :
        name[d] \in book_exceptions =>
            /\ d \notin Range(books)
            /\ d \notin affected_books
            /\ d \notin result

(* C8: the walk met an excluded directory with a pom.xml and a file the    *)
(* last commit changed, after it had found a book.                         *)
C8_Witness ==
    /\ pc \in {"done", "error"}
    /\ books # <<>>
    /\ \E d \in visited :
          /\ name[d] \in book_exceptions
          /\ pom[d]
          /\ \E p \in Paths : dirname(p) = d /\ gitdiff[p] # "-"

(* C9: book_bk maps every recorded master file to a discovered book that   *)
(* is the file's directory or an ancestor of it.                           *)
C9_OwnBook ==
    \A m \in DOMAIN book_bk :
        /\ book_bk[m] \in Range(books)
        /\ book_bk[m] \in ancestors(dirname(m))

(* C10: with no build-everything trigger, what the walk adds to            *)
(* affected_books is the high-availability-guide book alone, and it adds   *)
(* it exactly when that book exists and a changed (not deleted) file lies  *)
(* under its root.                                                         *)
C10_HaGuide ==
    (pc = "walked" /\ ~build_all_books) =>
        \A B \in Dirs :
            B \in affected_books <=>
                /\ IsHaGuideDir(B)
                /\ B \in Range(books)
                /\ \E p \in Modified : B \in ancestors(dirname(p))

(* The directories with a pom.xml that the walk yielded and took for       *)
(* candidate books: not excluded, not rootdir, no name ending in "doc".    *)
Discovered ==
    {d \in visited : /\ name[d] \notin book_exceptions
                     /\ d # rootdir
                     /\ name[d][3] # "doc"
                     /\ pom[d]}

(* C11: with force set and no only_book, the returned set is the set of    *)
(* books the walk collected, whatever the last commit changed; when no     *)
(* book is excluded that is every directory with a pom.xml outside the     *)
(* pruned subtrees, a set that depends on the tree alone.                  *)
C11_ForceReturnsAll ==
    (Returned /\ force /\ only_book = {}) =>
        /\ result = Range(books)
        /\ result = Discovered
        /\ book_exceptions = {} =>
              result = {d \in Dirs : /\ ToVisit(d)
                                     /\ d # rootdir
                                     /\ name[d][3] # "doc"
                                     /\ pom[d]}

(* C11: force was set on a tree of two books while the last commit changed *)
(* the master file of one of them only, and both books are returned.       *)
C11_Witness ==
    /\ Returned /\ force /\ only_book = {} /\ other_modified = {}
    /\ Cardinality(result) = 2
    /\ \E d \in result : gitdiff[<<d, BK>>] = "M"

(* C12: when the last commit names tools/test.py or doc/pom.xml, the       *)
(* returned set is the set of books the walk collected.                    *)
C12_SpecialFile ==
    (Returned /\ (\E f \in other_modified : f \in {"tools/test.py", "doc/pom.xml"})) =>
        /\ result = Range(books)
        /\ only_book = {} => result = Discovered

(* C12: the last commit named doc/pom.xml and the chapter of one of two     *)
(* books, force was off, and both books are returned.                      *)
C12_Witness ==
    /\ Returned /\ ~force /\ only_book = {}
    /\ other_modified = {"doc/pom.xml"}
    /\ Cardinality(result) = 2
    /\ \E d \in result : gitdiff[<<d, CH>>] = "M"

(* C13: with only_book set, the returned set is exactly the discovered     *)
(* books whose base name is in only_book, whatever force and the last      *)
(* commit are.                                                             *)
C13_OnlyBook ==
    (Returned /\ only_book # {}) =>
        result = {d \in Discovered : name[d] \in only_book}

(* C13: only_book named one of two discovered books, the last commit       *)
(* changed a file of the other one, and the named book alone is returned.  *)
C13_Witness ==
    /\ Returned /\ only_book # {}
    /\ Cardinality(result) = 1
    /\ \E d \in Discovered \ result :
          /\ name[d] \notin only_book
          /\ \E fn \in FileNames : gitdiff[<<d, fn>>] = "M"

(* C14: with no build-everything trigger and an empty affected_books, the  *)
(* books the walk collected are returned; and the returned set is never    *)
(* empty when the walk collected a book.                                   *)
C14_Fallback ==
    /\ (Closing /\ affected_books = {}) => result = Range(books)
    /\ (Returned /\ books # <<>>) => result # {}

(* C14: the closure processed the one changed file, a chapter nothing      *)
(* includes, found no book, and the two books of the tree are returned.    *)
C14_Witness ==
    /\ Closing
    /\ affected_books = {}
    /\ \E p \in Modified \ Masters : included_by[p] = {} /\ dequeued[p] = 1
    /\ Cardinality(result) = 2

(* The walk of 862-930 run to its end with the sub-directories of every    *)
(* directory listed in ascending order: the included_by and book_bk of one *)
(* run of the scanner on the tree.                                         *)
RECURSIVE ScanInOrder(_, _, _, _)
ScanInOrder(w, broot, bk, incl) ==
    IF w = <<>> THEN <<incl, bk>>
    ELSE LET root == Head(w)
             b == IF IsBook(root) THEN root ELSE broot
             scanned == ~IsSkipped(root) /\ ~build_all_books
             masters == IF scanned
                        THEN {<<root, fn>> : fn \in {f \in files(root) : is_book_master(f)}}
                        ELSE {}
             parsed == IF scanned THEN Parsed(root) ELSE {}
         IN IF IsBookException(root) THEN <<incl, bk>>
            ELSE ScanInOrder(
                   Ascending(FilterDirs(children(root))) \o Tail(w),
                   b,
                   [p \in DOMAIN bk \cup masters |-> IF p \in masters THEN b ELSE bk[p]],
                   [t \in Paths |-> incl[t] \cup {f \in parsed : t \in hrefs[f]}])

(* C15: the included_by and book_bk the walk ends with are those of a run  *)
(* of the scanner on the same tree that lists sibling directories in       *)
(* ascending order, whatever order this run listed them in.                *)
C15_ScanDeterminedByTree ==
    pc # "walk" =>
        <<included_by, book_bk>> =
            ScanInOrder(<<rootdir>>, rootdir, [p \in {} |-> rootdir], [p \in Paths |-> {}])

(* Vocabulary of the build properties. *)
Exited == pc = "exit"
BuildFailed(b) == failed_step[b] \in {"first", "later"}
BuildEnded(b) == failed_step[b] # "-"
RecordsOf(b) == {i \in 1 .. Len(RESULTS_OF_BUILDS) : RESULTS_OF_BUILDS[i][1] = b}

(* C16: when the process has ended, ignore_errors is false and the build   *)
(* of some book failed (at any command, with debug on or off), the exit    *)
(* status is not zero and the build of every book has ended.               *)
C16_FailureExitsNonZero ==
    (Exited /\ ~ignore_errors /\ \E b \in build_books : BuildFailed(b)) =>
        /\ exit_status # 0
        /\ \A b \in build_books : BuildEnded(b)

(* C17: once pool.join() has returned, no build_book queued to the pool    *)
(* has raised and RESULTS_OF_BUILDS holds exactly one record for every     *)
(* book queued to the pool, whatever command failed and whether or not     *)
(* the build left a directory to publish.                                  *)
C17_OneRecordPerBook ==
    (pc \in {"report", "exit"} /\ ~debug) =>
        \A b \in build_books :
            /\ task[b] # "raised"
            /\ Cardinality(RecordsOf(b)) = 1

C19_BarrierBeforeReport ==
    /\ [](pc \in {"report", "exit"} => Queued \cup Running = {})
    /\ [][(pc \in {"report", "exit"}) => (RESULTS_OF_BUILDS' = RESULTS_OF_BUILDS)]_vars

(* C19: the report ran over the records of four books that the pool built  *)
(* at the same time, one of them failed.                                   *)
C19_Witness ==
    /\ Exited /\ ~debug /\ cpu_count = 4
    /\ Len(RESULTS_OF_BUILDS) = 4
    /\ any_failures
    /\ exit_status = 1

(* C20: at most 4 builds run at the same time. *)
C20_AtMostFour == Cardinality(Running) <= 4

(* C20: on a machine with more than 4 CPUs, 4 builds run and a fifth book  *)
(* waits in the queue of the pool.                                         *)
C20_Witness ==
    /\ cpu_count > 4
    /\ Cardinality(Running) = 4
    /\ Queued # {}

ScannedDirs ==
    {d \in visited : /\ name[d] \notin book_exceptions
                     /\ d # rootdir
                     /\ name[d][3] # "doc"}

(* C22: when the walk has ended with no build-everything trigger, a file   *)
(* that is not well-formed XML is in no set of included_by, every          *)
(* well-formed .xml file of a scanned directory (pom.xml, the docinfo file *)
(* and excepted files aside) is in the set of each of its targets, and     *)
(* with no excluded book every directory outside the pruned subtrees was   *)
(* visited.                                                                *)
C22_InvalidXmlSkipped ==
    (pc # "walk" /\ ~build_all_books) =>
        /\ \A g \in Paths \ wellformed : \A t \in Paths : g \notin included_by[t]
        /\ \A g \in wellformed :
              (/\ dirname(g) \in ScannedDirs
               /\ gitdiff[g] # "D"
               /\ g[2][3] = ".xml"
               /\ g[2] \notin {POMXML, HADOCINFO}
               /\ g[2] \notin file_exceptions)
              => \A t \in hrefs[g] : g \in included_by[t]
        /\ book_exceptions = {} => \A d \in Dirs : ToVisit(d) => d \in visited

(* C22: the master file of a is not well-formed XML and has an include     *)
(* directive; the walk ended, and the chapter of the same directory and    *)
(* a file of the directory b have their edges in included_by.              *)
C22_Witness ==
    /\ pc # "walk"
    /\ <<1, BK>> \notin wellformed
    /\ hrefs[<<1, BK>>] # {}
    /\ \E t \in Paths : <<1, CH>> \in included_by[t]
    /\ \E t \in Paths : \E fn \in FileNames : <<2, fn>> \in included_by[t]

(* C23, as stated: when the walk has ended with no build-everything        *)
(* trigger, g is in included_by[t] exactly when g is a well-formed .xml    *)
(* file of a scanned directory, not pom.xml and not excepted, with an      *)
(* include directive that resolves to t.                                   *)
C23_EdgesOfEligibleFiles ==
    (pc # "walk" /\ ~build_all_books) =>
        \A t \in Paths, g \in Paths :
            g \in included_by[t] <=>
                /\ dirname(g) \in ScannedDirs
                /\ gitdiff[g] # "D"
                /\ g[2][3] = ".xml"
                /\ g[2] # POMXML
                /\ g[2] \notin file_exceptions
                /\ g \in wellformed
                /\ t \in hrefs[g]

(* C23, amended: when the walk has ended with no build-everything trigger, *)
(* g is in included_by[t] exactly when g is a well-formed .xml file of a   *)
(* scanned directory, not pom.xml, not ha-guide-docinfo.xml and not        *)
(* excepted, with an include directive that resolves to t.                 *)
C23_EdgesOfScannedFiles ==
    (pc # "walk" /\ ~build_all_books) =>
        \A t \in Paths, g \in Paths :
            g \in included_by[t] <=>
                /\ dirname(g) \in ScannedDirs
                /\ gitdiff[g] # "D"
                /\ g[2][3] = ".xml"
                /\ g[2] # POMXML
                /\ g[2] # HADOCINFO
                /\ g[2] \notin file_exceptions
                /\ g \in wellformed
                /\ t \in hrefs[g]

(* C23: the walk ended with the master file of a recorded as includer of a *)
(* chapter of another directory, while the docinfo file of a, which names  *)
(* a chapter too, is recorded nowhere.                                     *)
C23_Witness ==
    /\ pc # "walk"
    /\ \E t \in Paths : dirname(t) # 1 /\ <<1, BK>> \in included_by[t]
    /\ hrefs[<<1, HADOCINFO>>] # {}
    /\ <<1, HADOCINFO>> \in wellformed
    /\ \A t \in Paths : <<1, HADOCINFO>> \notin included_by[t]

(* The directories the walk of check_deleted_files reaches: no directory  *)
(* from rootdir down to them is named target or starts with a dot.        *)
OutsideTargetAndDot(d) ==
    \A a \in ancestors(d) \ {rootdir} : name[a] # TARGET /\ ~startswith_dot(name[a])

(* f is on disk under the root, eligible and parseable, and one of its    *)
(* references resolves to a file that the last commit deleted.            *)
RefersToFileDeletedByCommit(f) ==
    /\ exists(f)
    /\ OutsideTargetAndDot(dirname(f))
    /\ basename(f)[3] = ".xml"
    /\ basename(f) # POMXML
    /\ basename(f) \notin file_exceptions
    /\ f \in wellformed
    /\ \/ \E t \in hrefs[f] : gitdiff[t] = "D"
       \/ outside_deleted /\ f \in outside_refs

CheckDeletedEnded == pc \in {"returned", "exit"}

(* C24: check_deleted_files exits with status 1 if and only if some       *)
(* eligible, parseable .xml file under the root, outside target and dot   *)
(* directories, has a fileref or href that resolves to a file deleted by  *)
(* the last commit; when no file was deleted it returns without scanning. *)
C24_ExitIffDeletedReferenced ==
    CheckDeletedEnded =>
        /\ (pc = "exit" /\ exit_status = 1) <=> \E f \in Paths : RefersToFileDeletedByCommit(f)
        /\ ((\A p \in Paths : gitdiff[p] # "D") /\ ~outside_deleted)
               => (pc = "returned" /\ visited = {})

(* The lines of the existing file whose flag is opt. *)
LinesFor(opt) == {i \in 1 .. Len(flagmappings) : flagmappings[i][1] = opt}

(* C25: update_flagmappings writes exactly one line per discovered        *)
(* option, in the order of the option names; the option keeps the         *)
(* category of the existing file iff that file has exactly one line for   *)
(* it and is written with Unknown otherwise; no other flag is written.    *)
C25_OneLinePerOption ==
    pc = "written" =>
        /\ Len(flagmappings_new) = Len(opt_names)
        /\ \A i \in 1 .. Len(flagmappings_new) :
              /\ flagmappings_new[i][1] = opt_names[i]
              /\ \A j \in 1 .. Len(flagmappings_new) :
                    i < j => _cmpopts(flagmappings_new[i][1], flagmappings_new[j][1]) < 0
              /\ IF Cardinality(LinesFor(opt_names[i])) = 1
                 THEN \E k \in LinesFor(opt_names[i]) :
                         flagmappings_new[i][2] =
                            (IF Len(flagmappings[k]) >= 2 THEN flagmappings[k][2]
                             ELSE "Unknown")
                 ELSE flagmappings_new[i][2] = "Unknown"

(* debug has two lines and is written as Unknown, "old" is dropped. *)
C25_Witness ==
    /\ pc = "written"
    /\ Cardinality(LinesFor("debug")) = 2
    /\ LinesFor("old") # {}
    /\ \E i \in 1 .. Len(flagmappings_new) : flagmappings_new[i] = <<"debug", "Unknown">>
    /\ Len(flagmappings_new) = 3

InstallGuideCommands == <<"mvn clean", "apt-debian", "yum", "zypper", "apt">>

(* The book name that names the variant a build command is for. *)
VariantName(cmd) ==
    IF cmd = "apt-debian" THEN "install-guide (for debian)"
    ELSE IF cmd = "yum" THEN "install-guide (for Fedora)"
    ELSE IF cmd = "zypper" THEN "install-guide (for openSUSE)"
    ELSE "install-guide (for Ubuntu)"

BuildBookEnded == pc \in {"returned", "raised"}

(* C26: for the install guide the commands run are mvn clean and then    *)
(* the Debian, Fedora, openSUSE and Ubuntu builds, in that order; a      *)
(* command is run only if every command before it succeeded, and the     *)
(* sequence ends early only at a failing command; the returned book      *)
(* name lists the four variants iff the four builds succeeded, and       *)
(* otherwise it names the variant whose build failed.                    *)
C26_InstallGuideVariants ==
    base_book_orig = "install-guide" =>
        /\ Len(commands_run) <= 5
        /\ \A i \in 1 .. Len(commands_run) : commands_run[i] = InstallGuideCommands[i]
        /\ \A i \in 1 .. Len(commands_run) : i \in failing => i = Len(commands_run)
        /\ BuildBookEnded => (Len(commands_run) = 5 \/ Len(commands_run) \in failing)
        /\ pc = "returned" =>
              IF Len(commands_run) = 5 /\ 5 \notin failing
              THEN build_returns[1] = ALLFOUR
              ELSE build_returns[1] = VariantName(commands_run[Len(commands_run)])

(* The Fedora build failed after the Debian build succeeded. *)
C26_Witness ==
    /\ base_book_orig = "install-guide"
    /\ pc = "returned"
    /\ commands_run = <<"mvn clean", "apt-debian", "yum">>
    /\ build_returns = <<"install-guide (for Fedora)", FALSE>>

(* The last commit touched a file under www/ and no file outside it. *)
OnlyWwwTouched ==
    /\ \E f \in modified_files : f[1] = "www" /\ Len(f) >= 2
    /\ \A f \in modified_files : f[1] = "www" /\ Len(f) >= 2

(* The checks main has run, in order, each named by its kind. *)
KindOf(function) ==
    IF function \in {"validate_all_files", "validate_modified_files"} THEN "validation"
    ELSE IF function = "check_deleted_files" THEN "deletions"
    ELSE IF function = "build_affected_books" THEN "build"
    ELSE "copy"
ChecksRun ==
    LET called == SelectSeq(ran, LAMBDA x : x # "publish_www")
    IN [i \in 1 .. Len(called) |-> KindOf(called[i])]

(* The enabled checks in the order validation, deletions, build. *)
EnabledChecks ==
    (IF check_syntax \/ check_niceness THEN <<"validation">> ELSE <<>>)
    \o (IF check_deletions THEN <<"deletions">> ELSE <<>>)
    \o (IF check_build THEN <<"build">> ELSE <<>>)

IsPrefix(s, t) == Len(s) <= Len(t) /\ \A i \in 1 .. Len(s) : s[i] = t[i]

OptionsHandled == pc # "handle_options"

(* C27: when the last commit touched only files under www/ and force is  *)
(* not set, main runs no validation, no deleted-file check and no build; *)
(* in every other case the enabled checks run in the order validation,   *)
(* deleted-file check, build: what has run is a prefix of that list, the *)
(* whole list once main returned, and less than it only when the        *)
(* process was ended with status 1 on the way.                           *)
C27_WwwOnlySkipsChecks ==
    OptionsHandled =>
        IF OnlyWwwTouched /\ ~force
        THEN ChecksRun = <<>>
        ELSE /\ IsPrefix(ChecksRun, EnabledChecks)
             /\ pc \in {"returned", "exit"} =>
                   (ChecksRun = EnabledChecks \/ (pc = "exit" /\ exit_status = 1))

(* Only www files changed, force is off: main copied www and returned. *)
C27_Witness ==
    /\ pc = "returned"
    /\ OnlyWwwTouched
    /\ ~force
    /\ check_build /\ check_syntax /\ check_deletions
    /\ ran = <<"publish_www">>

(* C28: after handle_options at least one check is enabled; with none of *)
(* the four requested all four are enabled, check-all enables all four,  *)
(* and a requested check is enabled.                                     *)
C28_SomeCheckEnabled ==
    OptionsHandled =>
        /\ check_build \/ check_deletions \/ check_niceness \/ check_syntax
        /\ (argv \cap {"check-build", "check-deletions", "check-niceness", "check-syntax"} = {}
            \/ "check-all" \in argv)
              => (check_build /\ check_deletions /\ check_niceness /\ check_syntax)
        /\ "check-build" \in argv => check_build
        /\ "check-deletions" \in argv => check_deletions
        /\ "check-niceness" \in argv => check_niceness
        /\ "check-syntax" \in argv => check_syntax

(* No option was given and the four checks are on. *)
C28_Witness ==
    /\ OptionsHandled
    /\ argv = {}
    /\ check_build /\ check_deletions /\ check_niceness /\ check_syntax

(* C29: no line number is twice in affected_lines, however many of the   *)
(* checks its line matches.                                              *)
C29_LineReportedOnce ==
    \A i, j \in 1 .. Len(affected_lines) :
        i # j => affected_lines[i] # affected_lines[j]

(* The pieces of out from the i-th on keep the screens well nested when  *)
(* open tells whether a screen is open in front of them.                 *)
RECURSIVE WellNestedFrom(_, _, _)
WellNestedFrom(out, i, open) ==
    IF i > Len(out) THEN TRUE
    ELSE IF out[i] = "<screen><computeroutput>"
    THEN ~open /\ WellNestedFrom(out, i + 1, TRUE)
    ELSE IF out[i] = "</computeroutput></screen>"
    THEN open /\ WellNestedFrom(out, i + 1, FALSE)
    ELSE IF out[i] = "</section>"
    THEN ~open /\ WellNestedFrom(out, i + 1, FALSE)
    ELSE WellNestedFrom(out, i + 1, open)

(* C30: in what generate_command writes a screen is closed only while   *)
(* one is open, none is opened while one is open, and none is open when  *)
(* a section is closed.                                                  *)
C30_WellNested == WellNestedFrom(os_file, 1, FALSE)

====
